---- MODULE Spec2Model ----
(***************************************************************************)
(* A model of result::Result<T, E> (inc/result.h): the tagged storage      *)
(* (detail::Storage), the eight copy/move transitions                      *)
(* (detail::Storage_Ctrl), the constructors, assignments and destructor    *)
(* of Result, the panicking extractors and the read-only combinators.      *)
(*                                                                         *)
(* A payload is a record [k |-> type kind, n |-> number].  The bytes of a  *)
(* Storage are modelled by what object lives in them: live is "none",      *)
(* "ok" (a T object) or "err" (an E object) and value is that object's     *)
(* value.  The flag initialized is the member of the same name.            *)
(* Reading a payload that is not alive (Storage::get on a storage that was *)
(* never constructed or was destroyed) is undefined behaviour and yields   *)
(* any value of the type.                                                  *)
(*                                                                         *)
(* Spec is the lifecycle of Result objects with the extractors, SpecQ the  *)
(* read-only operations on Results in any state the lifecycle leaves, and  *)
(* SpecS the lifecycle with the member functions of Storage each operation *)
(* calls (construct, get, destroy) recorded in order.                      *)
(***************************************************************************)
EXTENDS Integers, Sequences, FiniteSets, TLC

\* ---------------------------------------------------------------- bounds
NumResults == 2          \* Result objects the program works with
MaxPayload == 1          \* payload values of a type are 0..MaxPayload

Slots == 1..NumResults

\* ------------------------------------------------- template instantiations
\* <<T, E>>: "void" is the unit success type, "int" an arithmetic type,
\* "enum" an enumeration, "class" a class type whose copy and move
\* constructors may throw, "optional" a std::optional of an arithmetic type.
Instantiations ==
  { <<"int", "int">>, <<"void", "enum">>, <<"enum", "class">>, <<"class", "int">>,
    <<"optional", "int">> }

VARIABLES
  T,        \* kind of the success type of the instantiation
  E,        \* kind of the error type of the instantiation
  r,        \* r[s]: the Result object in slot s
  cerr,     \* lines written to std::cerr
  status,   \* "running", "exit_failure" (std::exit) or "terminate"
  last,     \* the operation performed last
  ret,      \* what the last operation returned to its caller
  watch     \* are the Storage member calls of an operation recorded in last?

vars == <<T, E, r, cerr, status, last, ret, watch>>

\* ------------------------------------------------------------- payloads
\* [k |-> kind, n |-> number, has |-> engaged]; has is FALSE only for an empty
\* std::optional
Val(kind, i) == [k |-> kind, n |-> i, has |-> TRUE]
Nullopt == [k |-> "optional", n |-> 0, has |-> FALSE]
Vals(kind) ==
  { Val(kind, i) : i \in 0..MaxPayload } \cup (IF kind = "optional" THEN {Nullopt} ELSE {})
NoPayload == [k |-> "none", n |-> 0, has |-> FALSE]
Unit == [k |-> "void", n |-> 0, has |-> FALSE]

\* the type kind a tag selects
KindOf(tag) == IF tag = "ok" THEN T ELSE E

\* the values an Ok<T> / Err<E> wrapper can carry
WrapperVals(tag) == IF KindOf(tag) = "void" THEN {Unit} ELSE Vals(KindOf(tag))

\* can constructing a payload of this kind throw?
MayThrow(kind) == kind = "class"

\* --------------------------------------------------------------- Storage
EmptyStorage == [initialized |-> FALSE, live |-> "none", value |-> NoPayload]

\* Storage::construct / Storage::raw_construct: construct_at, then the flag.
\* For Ok<void> nothing is constructed.
raw_construct(st, tag, v) ==
  IF KindOf(tag) = "void"
    THEN [st EXCEPT !.initialized = TRUE]
    ELSE [initialized |-> TRUE, live |-> tag, value |-> v]

construct(st, tag, v) == raw_construct(st, tag, v)

\* Storage::get<U>: the set of values a read can yield
get(st, tag) ==
  IF st.live = tag
    THEN {st.value}
    ELSE Vals(KindOf(tag))

\* Storage::destroy(tag): does std::destroy_at run?  if (initialized), and
\* never for the unit success of Storage<void, E>
destroys_Always(st, tag) == TRUE

destroys(st, tag) == KindOf(tag) # "void" /\ st.initialized

\* Storage::destroy(tag)
destroy_Nothing(st, tag) == st

destroy(st, tag) ==
  IF KindOf(tag) = "void"
    THEN [st EXCEPT !.initialized = FALSE]
    ELSE IF destroys(st, tag)
           THEN [initialized |-> FALSE, live |-> "none", value |-> NoPayload]
           ELSE st

\* a call of a member function of a Storage: fn is "construct" (construct or
\* raw_construct), "get" or "destroy"; obj the storage it is called on ("dst":
\* of the Result operated on, "src": of the other Result or of the temporary
\* Result assigned from, "tmp": the staging Storage of a copy assignment); tag
\* the payload type; initialized and live the storage as the call finds it;
\* ran: a payload constructor completed / a payload destructor ran
Ev(fn, obj, tag, st, ran) ==
  [fn |-> fn, obj |-> obj, tag |-> tag, initialized |-> st.initialized, live |-> st.live,
   ran |-> ran]
GetEv(obj, tag, st) == Ev("get", obj, tag, st, FALSE)
ConstructEv(obj, tag, st, threw) == Ev("construct", obj, tag, st, KindOf(tag) # "void" /\ ~threw)
DestroyEv(obj, tag, st) == Ev("destroy", obj, tag, st, destroys(st, tag))

\* ---------------------------------------------------------------- Result
Tag(b) == IF b THEN "ok" ELSE "err"

Dead == [alive |-> FALSE, has_value |-> TRUE, storage |-> EmptyStorage]

is_ok(res) == res.has_value
is_err(res) == ~res.has_value

\* the arguments of a call: callables f and g (by name), a message, a value
Arg(f, g, m, v) == [f |-> f, g |-> g, msg |-> m, v |-> v]
NoArg == Arg("", "", "", NoPayload)

\* the record of a call: operation, the Result it is called on (dst), the
\* other Result it takes (src, 0 if none), whether it threw, its arguments,
\* after: <<copy, original>> when the call before it was a completed copy
\* construction or copy assignment, <<0, 0>> otherwise, invoked: the
\* invocations <<callable, argument>> of the callables passed to it, in order,
\* and calls: the member functions of Storage a lifecycle operation or an
\* extractor called, in order
NoOp == [op |-> "none", dst |-> 0, src |-> 0, threw |-> FALSE, arg |-> NoArg,
         after |-> <<0, 0>>, invoked |-> <<>>, calls |-> <<>>]
CopyJustMade ==
  IF last.op \in {"copy_ctor", "copy_assign"} /\ ~last.threw /\ last.dst # last.src
    THEN <<last.dst, last.src>>
    ELSE <<0, 0>>
Call(name, d, s, t, a) ==
  [op |-> name, dst |-> d, src |-> s, threw |-> t, arg |-> a, after |-> CopyJustMade,
   invoked |-> <<>>, calls |-> <<>>]
Op(name, d, s, t) == Call(name, d, s, t, NoArg)
OpArg(name, d, s, a) == Call(name, d, s, FALSE, a)
\* the call record l with the storage member calls c, when they are recorded
Calling(l, c) == IF watch THEN [l EXCEPT !.calls = c] ELSE l

\* what a call returned: nothing, a bool, a payload, a std::optional, a Result
\* (given by its state tag and payload) or a std::optional of a Result
Ret(kind, has, tag, v) == [kind |-> kind, has |-> has, tag |-> tag, value |-> v]
NoRet == Ret("none", FALSE, "none", NoPayload)
Bool(b) == Ret("bool", b, "none", NoPayload)
Payload(v) == Ret("payload", TRUE, "none", v)
Some(v) == Ret("optional", TRUE, "none", v)
None == Ret("optional", FALSE, "none", NoPayload)
Res(tag, v) == Ret("result", TRUE, tag, v)
SomeRes(tag, v) == Ret("optional_result", TRUE, tag, v)
NoneRes == Ret("optional_result", FALSE, "none", NoPayload)

Init ==
  /\ \E i \in Instantiations : T = i[1] /\ E = i[2]
  /\ r = [s \in Slots |-> Dead]
  /\ cerr = <<>>
  /\ status = "running"
  /\ last = NoOp
  /\ ret = NoRet
  /\ watch = FALSE

\* Result::Result() = default: the member initializers has_value{ true } and
\* Storage() with initialized{ false }; no T is constructed
DefaultResult_Err == [alive |-> TRUE, has_value |-> FALSE, storage |-> EmptyStorage]

DefaultResult == [alive |-> TRUE, has_value |-> TRUE, storage |-> EmptyStorage]

DefaultConstruct(s) ==
  /\ status = "running"
  /\ ~r[s].alive
  /\ r' = [r EXCEPT ![s] = DefaultResult]
  /\ last' = Op("default_ctor", s, 0, FALSE)
  /\ ret' = NoRet
  /\ UNCHANGED <<watch, T, E, cerr, status>>

\* the ways constructing a payload of this kind can end
Throws(kind) == IF MayThrow(kind) THEN {FALSE, TRUE} ELSE {FALSE}

\* Result::Result(const Ok<U>&) / Result(Ok<U>&&) / Result(Ok<void>) and
\* Result::Result(const Err<E>&) / Result(Err<E>&&), via Storage_Ctrl::construct.
\* A constructor that throws creates no object.
WrapperResult_AlwaysOk(tag, v) ==
  [alive |-> TRUE, has_value |-> TRUE, storage |-> construct(EmptyStorage, tag, v)]

WrapperResult(tag, v) ==
  [alive |-> TRUE, has_value |-> (tag = "ok"), storage |-> construct(EmptyStorage, tag, v)]

Construct(s, tag) ==
  /\ status = "running"
  /\ ~r[s].alive
  /\ \E v \in WrapperVals(tag), threw \in Throws(KindOf(tag)) :
       /\ r' = IF threw THEN r ELSE [r EXCEPT ![s] = WrapperResult(tag, v)]
       /\ last' = Calling(Call(IF tag = "ok" THEN "ctor_ok" ELSE "ctor_err", s, 0, threw,
                               Arg("", "", "", v)),
                          <<ConstructEv("dst", tag, EmptyStorage, threw)>>)
  /\ ret' = NoRet
  /\ UNCHANGED <<watch, T, E, cerr, status>>

\* Storage_Ctrl::copy_construct: dst.raw_construct(src.get<X>())
copy_construct(src, dst, tag, v) == raw_construct(dst, tag, v)

\* Storage_Ctrl::move_construct: dst.raw_construct(move(src.get<X>())); src.destroy(tag)
move_construct(src, dst, tag, v) ==
  [dst |-> raw_construct(dst, tag, v), src |-> destroy(src, tag)]

\* the Storage member calls of copy_construct and of move_construct
copy_construct_calls(src, dst, tag, threw) ==
  <<GetEv("src", tag, src), ConstructEv("dst", tag, dst, threw)>>

move_construct_calls(src, dst, tag, threw) ==
  <<GetEv("src", tag, src), ConstructEv("dst", tag, dst, threw)>>
    \o (IF threw THEN <<>> ELSE <<DestroyEv("src", tag, src)>>)

\* Storage_Ctrl<void, E>::copy_construct / move_construct(.., ok_tag) call
\* Storage<void, E>::get<void>(), which forms a reference to void: the copy and
\* the move constructor of Result<void, E> do not compile.
CopyMoveCtorCompiles == T # "void"

\* Result::Result(const Result& other)
CopyConstruct(s, o) ==
  /\ status = "running"
  /\ s # o /\ ~r[s].alive /\ r[o].alive
  /\ CopyMoveCtorCompiles
  /\ LET tag == Tag(r[o].has_value) IN
     \E v \in get(r[o].storage, tag), threw \in Throws(KindOf(tag)) :
       /\ r' = IF threw THEN r
               ELSE [r EXCEPT ![s] = [alive |-> TRUE, has_value |-> r[o].has_value,
                                      storage |-> copy_construct(r[o].storage, EmptyStorage, tag, v)]]
       /\ last' = Calling(Op("copy_ctor", s, o, threw),
                          copy_construct_calls(r[o].storage, EmptyStorage, tag, threw))
  /\ ret' = NoRet
  /\ UNCHANGED <<watch, T, E, cerr, status>>

\* Result::Result(Result&& other) noexcept: a throwing payload move calls
\* std::terminate
MoveConstruct(s, o) ==
  /\ status = "running"
  /\ s # o /\ ~r[s].alive /\ r[o].alive
  /\ CopyMoveCtorCompiles
  /\ LET tag == Tag(r[o].has_value) IN
     \E v \in get(r[o].storage, tag), threw \in Throws(KindOf(tag)) :
       LET m == move_construct(r[o].storage, EmptyStorage, tag, v) IN
       /\ r' = IF threw THEN r
               ELSE [r EXCEPT ![s] = [alive |-> TRUE, has_value |-> r[o].has_value,
                                      storage |-> m.dst],
                              ![o] = [r[o] EXCEPT !.storage = m.src]]
       /\ status' = IF threw THEN "terminate" ELSE status
       /\ last' = Calling(Op("move_ctor", s, o, threw),
                          move_construct_calls(r[o].storage, EmptyStorage, tag, threw))
  /\ ret' = NoRet
  /\ UNCHANGED <<watch, T, E, cerr>>

\* Result::~Result()
Destroy(s) ==
  /\ status = "running"
  /\ r[s].alive
  /\ r' = [r EXCEPT ![s] = [alive |-> FALSE, has_value |-> r[s].has_value,
                             storage |-> destroy(r[s].storage, Tag(r[s].has_value))]]
  /\ last' = Calling(Op("dtor", s, 0, FALSE),
                     <<DestroyEv("dst", Tag(r[s].has_value), r[s].storage)>>)
  /\ ret' = NoRet
  /\ UNCHANGED <<watch, T, E, cerr, status>>

\* where a payload construction inside copy assignment can throw: copying
\* the source into the staging storage, or moving the staged payload into dst
ThrowPoints(kind) == IF MayThrow(kind) THEN {"none", "copy", "move"} ELSE {"none"}

\* Storage_Ctrl::copy_assignment(src, dst, src_tag, dst_tag) with the value v
\* read from src: the storages dst and tmp it leaves and whether it threw.
\* Storage_Ctrl<void, E>::copy_assignment(.., ok_tag, dst_tag) only destroys dst.
copy_assignment(src, dst, stag, dtag, v, throwAt) ==
  IF KindOf(stag) = "void"
    THEN [dst |-> destroy(dst, dtag), tmp |-> EmptyStorage, threw |-> FALSE]
    ELSE IF throwAt = "copy"
      THEN [dst |-> dst, tmp |-> EmptyStorage, threw |-> TRUE]
      ELSE LET tmp == raw_construct(EmptyStorage, stag, v)
               dst1 == destroy(dst, dtag)
           IN IF throwAt = "move"
                THEN [dst |-> dst1, tmp |-> tmp, threw |-> TRUE]
                ELSE [dst |-> raw_construct(dst1, stag, CHOOSE w \in get(tmp, stag) : TRUE),
                      tmp |-> tmp, threw |-> FALSE]

\* the Storage member calls of copy_assignment
copy_assignment_calls(src, dst, stag, dtag, v, throwAt) ==
  IF KindOf(stag) = "void"
    THEN <<DestroyEv("dst", dtag, dst)>>
    ELSE <<GetEv("src", stag, src), ConstructEv("tmp", stag, EmptyStorage, throwAt = "copy")>>
           \o (IF throwAt = "copy" THEN <<>>
               ELSE <<DestroyEv("dst", dtag, dst),
                      GetEv("tmp", stag, raw_construct(EmptyStorage, stag, v)),
                      ConstructEv("dst", stag, destroy(dst, dtag), throwAt = "move")>>)

CopyAssign_NoSelfCheck(d, o) ==
  /\ status = "running"
  /\ r[d].alive /\ r[o].alive
  /\ LET stag == Tag(r[o].has_value)
         dtag == Tag(r[d].has_value)
     IN \E v \in get(r[o].storage, stag) :
          LET a == copy_assignment(r[o].storage, r[d].storage, stag, dtag, v, "none") IN
          /\ r' = [r EXCEPT ![d] = [alive |-> TRUE, has_value |-> r[o].has_value,
                                    storage |-> a.dst]]
          /\ last' = Calling(Op("copy_assign", d, o, FALSE),
                             copy_assignment_calls(r[o].storage, r[d].storage, stag, dtag,
                                                   v, "none"))
  /\ ret' = NoRet
  /\ UNCHANGED <<watch, T, E, cerr, status>>

CopyAssign_DestroysSource(d, o) ==
  /\ status = "running"
  /\ r[d].alive /\ r[o].alive /\ d # o
  /\ LET stag == Tag(r[o].has_value)
         dtag == Tag(r[d].has_value)
     IN \E v \in get(r[o].storage, stag) :
          LET a == copy_assignment(r[o].storage, r[d].storage, stag, dtag, v, "none") IN
          /\ r' = [r EXCEPT ![d] = [alive |-> TRUE, has_value |-> r[o].has_value,
                                    storage |-> a.dst],
                            ![o] = [r[o] EXCEPT !.storage = destroy(r[o].storage, stag)]]
          /\ last' = Op("copy_assign", d, o, FALSE)
  /\ ret' = NoRet
  /\ UNCHANGED <<watch, T, E, cerr, status>>

\* Result::operator=(const Result& other)
CopyAssign(d, o) ==
  /\ status = "running"
  /\ r[d].alive /\ r[o].alive
  /\ IF d = o
       THEN /\ r' = r
            /\ last' = Op("copy_assign", d, o, FALSE)
       ELSE LET stag == Tag(r[o].has_value)
                dtag == Tag(r[d].has_value)
            IN \E v \in get(r[o].storage, stag), throwAt \in ThrowPoints(KindOf(stag)) :
                 LET a == copy_assignment(r[o].storage, r[d].storage, stag, dtag, v, throwAt) IN
                 /\ r' = [r EXCEPT ![d] = [alive |-> TRUE,
                                           has_value |-> IF a.threw THEN r[d].has_value
                                                         ELSE r[o].has_value,
                                           storage |-> a.dst]]
                 /\ last' = Calling(Op("copy_assign", d, o, a.threw),
                                    copy_assignment_calls(r[o].storage, r[d].storage, stag,
                                                          dtag, v, throwAt))
  /\ ret' = NoRet
  /\ UNCHANGED <<watch, T, E, cerr, status>>

\* Storage_Ctrl::move_assignment(src, dst, src_tag, dst_tag) with the value v
\* read from src: the storages dst and src it leaves.
\* Storage_Ctrl<void, E>::move_assignment(.., ok_tag, dst_tag) only destroys dst.
move_assignment(src, dst, stag, dtag, v, threw) ==
  IF KindOf(stag) = "void"
    THEN [dst |-> destroy(dst, dtag), src |-> src]
    ELSE IF threw
      THEN [dst |-> destroy(dst, dtag), src |-> src]
      ELSE [dst |-> raw_construct(destroy(dst, dtag), stag, v),
            src |-> destroy(src, stag)]

\* the Storage member calls of move_assignment
move_assignment_calls(src, dst, stag, dtag, v, threw) ==
  IF KindOf(stag) = "void"
    THEN <<DestroyEv("dst", dtag, dst)>>
    ELSE <<DestroyEv("dst", dtag, dst), GetEv("src", stag, src),
           ConstructEv("dst", stag, destroy(dst, dtag), threw)>>
           \o (IF threw THEN <<>> ELSE <<DestroyEv("src", stag, src)>>)

\* Result::operator=(Result&& other) noexcept: a throwing payload move calls
\* std::terminate
MoveAssign(d, o) ==
  /\ status = "running"
  /\ r[d].alive /\ r[o].alive
  /\ IF d = o
       THEN /\ r' = r
            /\ last' = Op("move_assign", d, o, FALSE)
            /\ status' = status
       ELSE LET stag == Tag(r[o].has_value)
                dtag == Tag(r[d].has_value)
            IN \E v \in get(r[o].storage, stag), threw \in Throws(KindOf(stag)) :
                 LET a == move_assignment(r[o].storage, r[d].storage, stag, dtag, v, threw) IN
                 /\ r' = [r EXCEPT ![d] = [alive |-> TRUE,
                                           has_value |-> IF threw THEN r[d].has_value
                                                         ELSE r[o].has_value,
                                           storage |-> a.dst],
                                   ![o] = [r[o] EXCEPT !.storage = a.src]]
                 /\ last' = Calling(Op("move_assign", d, o, threw),
                                    move_assignment_calls(r[o].storage, r[d].storage, stag,
                                                          dtag, v, threw))
                 /\ status' = IF threw THEN "terminate" ELSE status
  /\ ret' = NoRet
  /\ UNCHANGED <<watch, T, E, cerr>>

\* dst = Ok(v) / dst = Err(e): the wrapper converts to a temporary Result
\* (converting constructor), operator=(Result&&) moves it into dst, and the
\* temporary is destroyed.  A throw while the temporary is built leaves dst
\* alone; a throw inside the noexcept move assignment calls std::terminate.
AssignWrapper(d, tag) ==
  /\ status = "running"
  /\ r[d].alive
  /\ \E v \in WrapperVals(tag), throwAt \in ThrowPoints(KindOf(tag)) :
       LET tmp == WrapperResult(tag, v)
           a == move_assignment(tmp.storage, r[d].storage, tag, Tag(r[d].has_value),
                                CHOOSE w \in get(tmp.storage, tag) : TRUE, throwAt = "move")
       IN /\ r' = IF throwAt = "copy" THEN r
                  ELSE [r EXCEPT ![d] = [alive |-> TRUE,
                                         has_value |-> IF throwAt = "move" THEN r[d].has_value
                                                       ELSE tmp.has_value,
                                         storage |-> a.dst]]
          /\ status' = IF throwAt = "move" THEN "terminate" ELSE status
          /\ last' = Calling(Call(IF tag = "ok" THEN "assign_ok" ELSE "assign_err", d, 0,
                                  throwAt # "none", Arg("", "", "", v)),
                             <<ConstructEv("src", tag, EmptyStorage, throwAt = "copy")>>
                               \o (IF throwAt = "copy" THEN <<>>
                                   ELSE move_assignment_calls(tmp.storage, r[d].storage, tag,
                                                              Tag(r[d].has_value), v,
                                                              throwAt = "move"))
                               \o (IF throwAt # "none" THEN <<>>
                                   ELSE <<DestroyEv("src", tag, a.src)>>))
  /\ ret' = NoRet
  /\ UNCHANGED <<watch, T, E, cerr>>

\* a temporary Result is move-constructed from r[o] (an argument passed by
\* value as std::move(r[o])) and destroyed
MoveToTemporary(o) ==
  /\ status = "running"
  /\ r[o].alive
  /\ CopyMoveCtorCompiles
  /\ LET tag == Tag(r[o].has_value) IN
     \E v \in get(r[o].storage, tag), threw \in Throws(KindOf(tag)) :
       LET m == move_construct(r[o].storage, EmptyStorage, tag, v) IN
       /\ r' = IF threw THEN r ELSE [r EXCEPT ![o] = [r[o] EXCEPT !.storage = m.src]]
       /\ status' = IF threw THEN "terminate" ELSE status
       /\ last' = Calling(Op("move_to_temporary", 0, o, threw),
                          move_construct_calls(r[o].storage, EmptyStorage, tag, threw)
                            \o (IF threw THEN <<>> ELSE <<DestroyEv("dst", tag, m.dst)>>))
  /\ ret' = NoRet
  /\ UNCHANGED <<watch, T, E, cerr>>

\* ------------------------------------------------------------ extractors
Extractors == {"expect", "unwrap", "expect_err", "unwrap_err"}

\* messages a caller passes to expect / expect_err
Msgs == {"Testing expect", "boom"}

UnwrapMsg == "Attempting to unwrap an Err Result"
UnwrapErrMsg == "Attempting to unwrap_err an Ok Result"

MsgsOf(op) ==
  CASE op = "unwrap" -> {UnwrapMsg}
    [] op = "unwrap_err" -> {UnwrapErrMsg}
    [] OTHER -> Msgs

\* the state an extractor asks for
Wanted(op) == IF op \in {"expect", "unwrap"} THEN "ok" ELSE "err"

\* expect is declared for a non-void T only
ExtractorCompiles(op) == ~(op = "expect" /\ T = "void")

\* traits::toUType: static_cast to the underlying type
toUType(v) == v.n

\* operator<< of a payload: an arithmetic value prints its digits, the class
\* payload number n prints as the text "s<n>", an optional its engagement
StreamOut(v) ==
  CASE v.k = "class" -> "s" \o ToString(v.n)
    [] v.k = "optional" -> IF v.has THEN "opt" \o ToString(v.n) ELSE "nullopt"
    [] OTHER -> ToString(v.n)

\* Result::report_err<U>(msg): the lines it can write to std::cerr
report_err(res, utag, msg) ==
  IF KindOf(utag) = "void"
    THEN {msg}
    ELSE { msg \o ": " \o (IF KindOf(utag) = "enum" THEN ToString(toUType(v)) ELSE StreamOut(v)) :
             v \in get(res.storage, utag) }

\* expect / unwrap / expect_err / unwrap_err on res: the outcomes of the call.
\* In the wanted state the payload is returned; otherwise report_err writes
\* the payload held and std::exit(EXIT_FAILURE) ends the process.
extract_Returns(res, op, msg) ==
  { [returns |-> TRUE, ret |-> Payload(v), line |-> "", status |-> "running"] :
      v \in IF KindOf(Wanted(op)) = "void" THEN {Unit} ELSE get(res.storage, Wanted(op)) }

extract(res, op, msg) ==
  IF Tag(res.has_value) = Wanted(op)
    THEN { [returns |-> TRUE, ret |-> Payload(v), line |-> "", status |-> "running"] :
             v \in IF KindOf(Wanted(op)) = "void" THEN {Unit} ELSE get(res.storage, Wanted(op)) }
    ELSE { [returns |-> FALSE, ret |-> NoRet, line |-> l, status |-> "exit_failure"] :
             l \in report_err(res, Tag(res.has_value), msg) }

Extract(s, op) ==
  /\ status = "running"
  /\ r[s].alive
  /\ ExtractorCompiles(op)
  /\ \E msg \in MsgsOf(op) : \E o \in extract(r[s], op, msg) :
       /\ cerr' = IF o.returns THEN cerr ELSE Append(cerr, o.line)
       /\ status' = o.status
       /\ ret' = o.ret
       /\ last' = OpArg(op, s, 0, Arg("", "", msg, NoPayload))
  /\ UNCHANGED <<watch, T, E, r>>

Next ==
  \/ \E s \in Slots : DefaultConstruct(s)
  \/ \E s \in Slots, tag \in {"ok", "err"} : Construct(s, tag)
  \/ \E s, o \in Slots : CopyConstruct(s, o)
  \/ \E s, o \in Slots : MoveConstruct(s, o)
  \/ \E d, o \in Slots : CopyAssign(d, o)
  \/ \E d, o \in Slots : MoveAssign(d, o)
  \/ \E d \in Slots, tag \in {"ok", "err"} : AssignWrapper(d, tag)
  \/ \E o \in Slots : MoveToTemporary(o)
  \/ \E s \in Slots : Destroy(s)
  \/ \E s \in Slots, op \in Extractors : Extract(s, op)

Spec == Init /\ [][Next]_vars

\* ------------------------------------------------------ storage lifetime
\* the constructions, assignments and destructions alone, with the Storage
\* member calls of each recorded, for the instantiations with a payload that
\* can throw or with the unit success type
StorageInstantiations == { i \in Instantiations : \E k \in {"class", "void"} : k \in {i[1], i[2]} }

InitS ==
  /\ \E i \in StorageInstantiations : T = i[1] /\ E = i[2]
  /\ r = [s \in Slots |-> Dead]
  /\ cerr = <<>>
  /\ status = "running"
  /\ last = NoOp
  /\ ret = NoRet
  /\ watch = TRUE

NextS ==
  \/ \E s \in Slots : DefaultConstruct(s)
  \/ \E s \in Slots, tag \in {"ok", "err"} : Construct(s, tag)
  \/ \E s, o \in Slots : CopyConstruct(s, o)
  \/ \E s, o \in Slots : MoveConstruct(s, o)
  \/ \E d, o \in Slots : CopyAssign(d, o)
  \/ \E d, o \in Slots : MoveAssign(d, o)
  \/ \E d \in Slots, tag \in {"ok", "err"} : AssignWrapper(d, tag)
  \/ \E o \in Slots : MoveToTemporary(o)
  \/ \E s \in Slots : Destroy(s)

SpecS == InitS /\ [][NextS]_vars

\* ------------------------------------------------- read-only operations
\* callables passed to the combinators, by name
Funcs == {"identity", "succ"}            \* Func(U) -> U
Thunks == {"zero", "one"}                \* Func() -> int
ResFuncs == {"ok_succ", "fail"}          \* Func(U) -> Result
ElseFuncs == {"recover", "fail"}         \* Func(E) -> Result<T, F>

\* pure callables used to compose: Funcs and one that does not commute with succ
PureFuncs == Funcs \cup {"twice"}
\* the callable [](auto x) { return g(f(x)); }
Compose(g, f) == g \o "." \o f
Outer(c) == CHOOSE g \in PureFuncs : \E f \in PureFuncs : c = Compose(g, f)
Inner(c) == CHOOSE f \in PureFuncs : \E g \in PureFuncs : c = Compose(g, f)

\* a call of one of the named callables
InvokePure(f, v) ==
  IF f = "identity" \/ ~v.has THEN v
  ELSE IF f = "succ" THEN [v EXCEPT !.n = v.n + 1]
  ELSE [v EXCEPT !.n = 2 * v.n]

\* std::invoke(op, v)
Invoke(f, v) ==
  IF f \in PureFuncs THEN InvokePure(f, v)
  ELSE InvokePure(Outer(f), InvokePure(Inner(f), v))
InvokeThunk(f) == Val("int", IF f = "zero" THEN 0 ELSE 1)
\* conversion of a payload to another type
Recast(kind, v) == Val(kind, v.n)
InvokeRes(f, v) == IF f = "fail" THEN Res("err", Val(E, 0)) ELSE Res("ok", Invoke("succ", v))
InvokeResThunk(f) == IF f = "fail" THEN Res("err", Val(E, 0)) ELSE Res("ok", InvokeThunk("zero"))
InvokeElse(f, e) ==
  IF f = "fail" THEN Res("err", Invoke("succ", e)) ELSE Res("ok", Recast(T, e))

\* what a call does: the value it returns and the invocations it makes
Outcome(x, inv) == [ret |-> x, invoked |-> inv]
\* outcomes of a call that invokes nothing
Plain(S) == { Outcome(x, <<>>) : x \in S }

\* T{}
DefaultValue(kind) == IF kind = "optional" THEN Nullopt ELSE Val(kind, 0)

\* the returned Err(storage.get<E>())
ErrOfSelf(res) == { Res("err", e) : e \in get(res.storage, "err") }
\* the returned Ok(storage.get<T>())
OkOfSelf(res) == { Res("ok", v) : v \in get(res.storage, "ok") }
\* a Result returned by copy
CopyOf(res) ==
  { Res(Tag(res.has_value), v) : v \in get(res.storage, Tag(res.has_value)) }

ok_AlwaysSome(res) == { Some(v) : v \in get(res.storage, Tag(res.has_value)) }

ok(res) == IF is_ok(res) THEN { Some(v) : v \in get(res.storage, "ok") } ELSE {None}

err(res) == IF is_err(res) THEN { Some(e) : e \in get(res.storage, "err") } ELSE {None}

map_LosesErr(res, f) ==
  IF is_ok(res)
    THEN IF T = "void" THEN {Outcome(Res("ok", InvokeThunk(f)), <<<<f, Unit>>>>)}
         ELSE { Outcome(Res("ok", Invoke(f, v)), <<<<f, v>>>>) : v \in get(res.storage, "ok") }
    ELSE Plain({Res("err", DefaultValue(E))})

map_AlsoMapsErr(res, f) ==
  IF is_ok(res)
    THEN IF T = "void" THEN {Outcome(Res("ok", InvokeThunk(f)), <<<<f, Unit>>>>)}
         ELSE { Outcome(Res("ok", Invoke(f, v)), <<<<f, v>>>>) : v \in get(res.storage, "ok") }
    ELSE { Outcome(Res("err", Invoke("succ", e)), <<<<f, e>>>>) : e \in get(res.storage, "err") }

map(res, f) ==
  IF is_ok(res)
    THEN IF T = "void" THEN {Outcome(Res("ok", InvokeThunk(f)), <<<<f, Unit>>>>)}
         ELSE { Outcome(Res("ok", Invoke(f, v)), <<<<f, v>>>>) : v \in get(res.storage, "ok") }
    ELSE Plain(ErrOfSelf(res))

\* the temporary Result a combinator returned, as the object the next call of a
\* chain is made on
Returned(x) == WrapperResult(x.tag, x.value)

\* r.map(f).map(g)
map_map(res, f, g) ==
  UNION { { Outcome(o2.ret, o1.invoked \o o2.invoked) : o2 \in map(Returned(o1.ret), g) } :
            o1 \in map(res, f) }

map_err_AlsoMapsOk(res, f) ==
  { Outcome(Res(Tag(res.has_value), Invoke("succ", v)), <<<<f, v>>>>) :
      v \in get(res.storage, Tag(res.has_value)) }

map_err(res, f) ==
  IF is_err(res)
    THEN { Outcome(Res("err", Invoke(f, e)), <<<<f, e>>>>) : e \in get(res.storage, "err") }
    ELSE Plain(OkOfSelf(res))

map_or(res, value, f) ==
  IF is_ok(res)
    THEN IF T = "void" THEN {Outcome(Payload(InvokeThunk(f)), <<<<f, Unit>>>>)}
         ELSE { Outcome(Payload(Invoke(f, v)), <<<<f, v>>>>) : v \in get(res.storage, "ok") }
    ELSE Plain({Payload(value)})

map_or_else_InvokesBoth(res, dop, f) ==
  { Outcome(Payload(IF T = "void" /\ is_ok(res) THEN InvokeThunk(f)
                    ELSE IF is_ok(res) THEN Invoke(f, v)
                    ELSE Recast(IF T = "void" THEN "int" ELSE T, Invoke(dop, v))),
            << <<dop, v>>, <<f, v>> >>) :
      v \in get(res.storage, Tag(res.has_value)) }

map_or_else(res, dop, f) ==
  IF is_ok(res)
    THEN IF T = "void" THEN {Outcome(Payload(InvokeThunk(f)), <<<<f, Unit>>>>)}
         ELSE { Outcome(Payload(Invoke(f, v)), <<<<f, v>>>>) : v \in get(res.storage, "ok") }
    ELSE { Outcome(Payload(Recast(IF T = "void" THEN "int" ELSE T, Invoke(dop, e))),
                   <<<<dop, e>>>>) : e \in get(res.storage, "err") }

and_op_RightErrWins(res, other) ==
  IF is_ok(res) \/ is_err(other) THEN CopyOf(other) ELSE ErrOfSelf(res)

and_op(res, other) == IF is_ok(res) THEN CopyOf(other) ELSE ErrOfSelf(res)

and_then_InvokesOnErr(res, f) ==
  IF T = "void" THEN {Outcome(InvokeResThunk(f), <<<<f, Unit>>>>)}
  ELSE { Outcome(IF is_ok(res) THEN InvokeRes(f, v) ELSE Res("err", v), <<<<f, v>>>>) :
           v \in get(res.storage, Tag(res.has_value)) }

and_then(res, f) ==
  IF is_ok(res)
    THEN IF T = "void" THEN {Outcome(InvokeResThunk(f), <<<<f, Unit>>>>)}
         ELSE { Outcome(InvokeRes(f, v), <<<<f, v>>>>) : v \in get(res.storage, "ok") }
    ELSE Plain(ErrOfSelf(res))

or_op(res, other) == IF is_err(res) THEN CopyOf(other) ELSE OkOfSelf(res)

or_else_LosesOk(res, f) ==
  IF is_err(res)
    THEN { Outcome(InvokeElse(f, e), <<<<f, e>>>>) : e \in get(res.storage, "err") }
    ELSE Plain({Res("ok", DefaultValue(T))})

or_else(res, f) ==
  IF is_err(res)
    THEN { Outcome(InvokeElse(f, e), <<<<f, e>>>>) : e \in get(res.storage, "err") }
    ELSE Plain(OkOfSelf(res))

unwrap_or_IgnoresDefault(res, value) ==
  IF is_ok(res) THEN { Payload(v) : v \in get(res.storage, "ok") }
  ELSE {Payload(DefaultValue(T))}

unwrap_or(res, value) ==
  IF is_ok(res) THEN { Payload(v) : v \in get(res.storage, "ok") } ELSE {Payload(value)}

unwrap_or_default(res) ==
  IF is_ok(res) THEN { Payload(v) : v \in get(res.storage, "ok") }
  ELSE {Payload(DefaultValue(T))}

unwrap_or_else(res, f) ==
  IF is_err(res)
    THEN { Outcome(Payload(Recast(T, Invoke(f, e))), <<<<f, e>>>>) :
             e \in get(res.storage, "err") }
    ELSE Plain({ Payload(v) : v \in get(res.storage, "ok") })

contains_AcrossStates(res, value) ==
  { Bool(v = value) : v \in get(res.storage, Tag(res.has_value)) }

contains(res, value) ==
  IF is_ok(res) THEN { Bool(v = value) : v \in get(res.storage, "ok") } ELSE {Bool(FALSE)}

contains_err(res, value) ==
  IF is_err(res) THEN { Bool(e = value) : e \in get(res.storage, "err") } ELSE {Bool(FALSE)}

transpose_ErrIsNone(res) ==
  IF is_ok(res)
    THEN { IF v.has THEN SomeRes("ok", Val("int", v.n)) ELSE NoneRes :
             v \in get(res.storage, "ok") }
    ELSE {NoneRes}

transpose(res) ==
  IF is_ok(res)
    THEN { IF v.has THEN SomeRes("ok", Val("int", v.n)) ELSE NoneRes :
             v \in get(res.storage, "ok") }
    ELSE { SomeRes("err", e) : e \in get(res.storage, "err") }

eq_IgnoresState(lhs, rhs) ==
  { Bool(a = b) : a \in get(lhs.storage, Tag(lhs.has_value)),
                  b \in get(rhs.storage, Tag(rhs.has_value)) }

\* operator==(const Result&, const Result&), both overloads
eq(lhs, rhs) ==
  IF is_ok(lhs) # is_ok(rhs) THEN {Bool(FALSE)}
  ELSE IF ~is_ok(lhs)
    THEN { Bool(a = b) : a \in get(lhs.storage, "err"), b \in get(rhs.storage, "err") }
    ELSE IF T = "void" THEN {Bool(TRUE)}
         ELSE { Bool(a = b) : a \in get(lhs.storage, "ok"), b \in get(rhs.storage, "ok") }

\* operator!=(const Result&, const Result&), both overloads
ne(lhs, rhs) ==
  IF is_ok(lhs) # is_ok(rhs) THEN {Bool(TRUE)}
  ELSE IF ~is_ok(lhs)
    THEN { Bool(a # b) : a \in get(lhs.storage, "err"), b \in get(rhs.storage, "err") }
    ELSE IF T = "void" THEN {Bool(TRUE)}
         ELSE { Bool(a # b) : a \in get(lhs.storage, "ok"), b \in get(rhs.storage, "ok") }

\* operator==(const Result&, const Ok<T2>&) and its mirror image
eq_ok(res, value) ==
  IF T = "void" THEN {Bool(is_ok(res))}
  ELSE IF is_ok(res) THEN { Bool(v = value) : v \in get(res.storage, "ok") }
  ELSE {Bool(FALSE)}

\* operator!=(const Result&, const Ok<T2>&) and its mirror image
ne_ok(res, value) ==
  IF T = "void" THEN {Bool(~is_ok(res))}
  ELSE IF is_ok(res) THEN { Bool(v # value) : v \in get(res.storage, "ok") }
  ELSE {Bool(TRUE)}

\* operator==(const Result&, const Err<E2>&) and its mirror image
eq_err(res, value) ==
  IF is_err(res) THEN { Bool(e = value) : e \in get(res.storage, "err") } ELSE {Bool(FALSE)}

\* operator==(const Ok<T2>&, const Result&): return r == ok
ok_eq(value, res) == eq_ok(res, value)

\* operator==(const Err<E2>&, const Result&): return r == err
err_eq(value, res) == eq_err(res, value)

\* operator!=(const Result&, const Err<E2>&) and its mirror image
ne_err(res, value) ==
  IF is_err(res) THEN { Bool(e # value) : e \in get(res.storage, "err") } ELSE {Bool(TRUE)}

\* which read-only member functions the instantiation can call
Compiles(op) ==
  CASE op \in {"ok", "map_err", "and", "or", "or_else", "unwrap_or", "unwrap_or_default",
               "unwrap_or_else", "contains"} -> T # "void"
    [] op = "transpose" -> T = "optional"
    [] OTHER -> TRUE

\* the alive Result objects the lifecycle operations produce
StoragesOf(tag) ==
  {EmptyStorage} \cup
    (IF KindOf(tag) = "void"
       THEN {raw_construct(EmptyStorage, tag, Unit)}
       ELSE { raw_construct(EmptyStorage, tag, v) : v \in Vals(KindOf(tag)) })

ResultStates ==
  UNION { { [alive |-> TRUE, has_value |-> b, storage |-> st] : st \in StoragesOf(Tag(b)) } :
            b \in BOOLEAN }

\* the first two Result objects are alive, in any state the lifecycle
\* operations can leave them in
InitQ ==
  /\ \E i \in Instantiations : T = i[1] /\ E = i[2]
  /\ r \in { f \in [Slots -> ResultStates \cup {Dead}] :
               \A s \in Slots : (f[s] = Dead) <=> (s > 2) }
  /\ cerr = <<>>
  /\ status = "running"
  /\ last = NoOp
  /\ ret = NoRet
  /\ watch = FALSE

const_self_MovedFrom(res) ==
  [res EXCEPT !.storage = destroy(res.storage, Tag(res.has_value))]

\* what a const member function (or a function taking const Result&) leaves
\* of the object it is called on
const_self(res) == res

\* a call of a read-only operation on r[s] (and r[o] when o # 0) with one of
\* the outcomes results
Observe(name, s, o, a, results) ==
  /\ status = "running"
  /\ r[s].alive
  /\ Compiles(name)
  /\ \E out \in results :
       /\ ret' = out.ret
       /\ last' = [OpArg(name, s, o, a) EXCEPT !.invoked = out.invoked]
  /\ r' = [x \in Slots |-> IF x = s \/ x = o THEN const_self(r[x]) ELSE r[x]]
  /\ UNCHANGED <<watch, T, E, cerr, status>>

CallIsOk(s) == Observe("is_ok", s, 0, NoArg, Plain({Bool(is_ok(r[s]))}))

CallIsErr(s) == Observe("is_err", s, 0, NoArg, Plain({Bool(is_err(r[s]))}))

CallOk(s) == Observe("ok", s, 0, NoArg, Plain(ok(r[s])))

CallErr(s) == Observe("err", s, 0, NoArg, Plain(err(r[s])))

CallMap(s) ==
  \E f \in (IF T = "void" THEN Thunks ELSE Funcs) :
    Observe("map", s, 0, Arg(f, "", "", NoPayload), map(r[s], f))

CallMapMap(s) ==
  /\ T # "void"
  /\ \E f \in PureFuncs : \E g \in PureFuncs :
       Observe("map_map", s, 0, Arg(f, g, "", NoPayload), map_map(r[s], f, g))

CallMapErr(s) ==
  \E f \in Funcs : Observe("map_err", s, 0, Arg(f, "", "", NoPayload), map_err(r[s], f))

CallMapOr(s) ==
  \E f \in (IF T = "void" THEN Thunks ELSE Funcs) :
    \E value \in (IF T = "void" THEN Vals("int") ELSE Vals(T)) :
      Observe("map_or", s, 0, Arg(f, "", "", value), map_or(r[s], value, f))

CallMapOrElse(s) ==
  \E f \in (IF T = "void" THEN Thunks ELSE Funcs) : \E dop \in Funcs :
    Observe("map_or_else", s, 0, Arg(f, dop, "", NoPayload), map_or_else(r[s], dop, f))

CallAnd(s, o) == r[o].alive /\ Observe("and", s, o, NoArg, Plain(and_op(r[s], r[o])))

CallAndThen(s) ==
  \E f \in ResFuncs : Observe("and_then", s, 0, Arg(f, "", "", NoPayload), and_then(r[s], f))

CallOr(s, o) == r[o].alive /\ Observe("or", s, o, NoArg, Plain(or_op(r[s], r[o])))

CallOrElse(s) ==
  \E f \in ElseFuncs : Observe("or_else", s, 0, Arg(f, "", "", NoPayload), or_else(r[s], f))

CallUnwrapOr(s) ==
  \E value \in Vals(T) :
    Observe("unwrap_or", s, 0, Arg("", "", "", value), Plain(unwrap_or(r[s], value)))

CallUnwrapOrDefault(s) ==
  Observe("unwrap_or_default", s, 0, NoArg, Plain(unwrap_or_default(r[s])))

CallUnwrapOrElse(s) ==
  \E f \in Funcs :
    Observe("unwrap_or_else", s, 0, Arg(f, "", "", NoPayload), unwrap_or_else(r[s], f))

CallContains(s) ==
  \E value \in Vals(T) :
    Observe("contains", s, 0, Arg("", "", "", value), Plain(contains(r[s], value)))

CallContainsErr(s) ==
  \E value \in Vals(E) :
    Observe("contains_err", s, 0, Arg("", "", "", value), Plain(contains_err(r[s], value)))

CallTranspose(s) == Observe("transpose", s, 0, NoArg, Plain(transpose(r[s])))

CallEq(s, o) == r[o].alive /\ Observe("eq", s, o, NoArg, Plain(eq(r[s], r[o])))

CallNe(s, o) == r[o].alive /\ Observe("ne", s, o, NoArg, Plain(ne(r[s], r[o])))

CallEqOk(s) ==
  \E value \in WrapperVals("ok") :
    Observe("eq_ok", s, 0, Arg("", "", "", value), Plain(eq_ok(r[s], value)))

CallOkEq(s) ==
  \E value \in WrapperVals("ok") :
    Observe("ok_eq", s, 0, Arg("", "", "", value), Plain(ok_eq(value, r[s])))

CallErrEq(s) ==
  \E value \in Vals(E) :
    Observe("err_eq", s, 0, Arg("", "", "", value), Plain(err_eq(value, r[s])))

CallNeOk(s) ==
  \E value \in WrapperVals("ok") :
    Observe("ne_ok", s, 0, Arg("", "", "", value), Plain(ne_ok(r[s], value)))

CallEqErr(s) ==
  \E value \in Vals(E) :
    Observe("eq_err", s, 0, Arg("", "", "", value), Plain(eq_err(r[s], value)))

CallNeErr(s) ==
  \E value \in Vals(E) :
    Observe("ne_err", s, 0, Arg("", "", "", value), Plain(ne_err(r[s], value)))

NextQ ==
  \/ \E s \in Slots :
       \/ CallIsOk(s) \/ CallIsErr(s) \/ CallOk(s) \/ CallErr(s)
       \/ CallMap(s) \/ CallMapMap(s) \/ CallMapErr(s) \/ CallMapOr(s) \/ CallMapOrElse(s)
       \/ CallAndThen(s) \/ CallOrElse(s)
       \/ CallUnwrapOr(s) \/ CallUnwrapOrDefault(s) \/ CallUnwrapOrElse(s)
       \/ CallContains(s) \/ CallContainsErr(s) \/ CallTranspose(s)
       \/ CallEqOk(s) \/ CallNeOk(s) \/ CallEqErr(s) \/ CallNeErr(s)
       \/ CallOkEq(s) \/ CallErrEq(s)
  \/ \E s, o \in Slots :
       CallAnd(s, o) \/ CallOr(s, o) \/ CallEq(s, o) \/ CallNe(s, o)

SpecQ == InitQ /\ [][NextQ]_vars

\* the Result objects of Spec are the ones SpecQ starts from
ResultStatesCoverSpec == \A s \in Slots : r[s].alive => r[s] \in ResultStates

\* ------------------------------------------------------------ properties
\* the payload that is live in the storage of a Result: "ok" (a T), "err"
\* (an E), "unit" (the constructed unit success of Result<void, E>) or "none"
Live(res) ==
  IF res.storage.live # "none" THEN res.storage.live
  ELSE IF res.storage.initialized THEN "unit" ELSE "none"

\* the payload the discriminant names
Named(res) == IF res.has_value THEN (IF T = "void" THEN "unit" ELSE "ok") ELSE "err"

InSync(res) == Live(res) = Named(res)

PayloadOf(res) == <<Live(res), res.storage.value>>

TagOfCtor(op) == IF op \in {"ctor_ok", "assign_ok"} THEN "ok" ELSE "err"

\* C1 (invariant I1): every live Result holds exactly one live payload, and it
\* is of the kind (success or failure) that has_value names.
C1_OnePayloadMatchingDiscriminant ==
  \A s \in Slots : r[s].alive => InSync(r[s])

\* C2 (construction round trip): a Result just built from Ok(v) is_ok and
\* unwrap/expect return v; one built from Err(e) is_err and
\* unwrap_err/expect_err return e; an extractor called in the matching state
\* returns the payload held, without a diagnostic and without ending the process.
C2_ConstructionRoundTrip ==
  /\ (last.op \in {"ctor_ok", "ctor_err"} /\ ~last.threw) =>
       LET res == r[last.dst]
           tag == TagOfCtor(last.op)
       IN /\ res.alive
          /\ is_ok(res) = (tag = "ok") /\ is_err(res) = (tag = "err")
          /\ \A op \in Extractors : (Wanted(op) = tag /\ ExtractorCompiles(op)) =>
               \A msg \in MsgsOf(op) :
                 extract(res, op, msg) =
                   { [returns |-> TRUE, ret |-> Payload(last.arg.v), line |-> "",
                      status |-> "running"] }
  /\ (last.op \in Extractors /\ InSync(r[last.dst])
        /\ Tag(r[last.dst].has_value) = Wanted(last.op)) =>
       /\ ret = Payload(IF Named(r[last.dst]) = "unit" THEN Unit
                        ELSE r[last.dst].storage.value)
       /\ status = "running" /\ cerr = <<>>

C2_Witness ==
  /\ last.op = "unwrap_err" /\ is_err(r[last.dst]) /\ InSync(r[last.dst])
  /\ ret = Payload(Val(E, 1)) /\ status = "running" /\ cerr = <<>>

\* C3 (copy assignment is a full replace): after dst = src has completed, dst
\* is in the state of src and holds a payload equal to the payload of src.
C3_CopyAssignFullReplace ==
  (last.op = "copy_assign" /\ ~last.threw /\ last.dst # last.src) =>
     /\ r[last.dst].has_value = r[last.src].has_value
     /\ InSync(r[last.dst])
     /\ PayloadOf(r[last.dst]) = PayloadOf(r[last.src])

\* C4 (move transfers): a completed move construction or move assignment
\* gives the destination the former state and payload of the source and
\* leaves no live payload in the storage of the source.
C4_MoveTransfers ==
  [][ (last'.op \in {"move_ctor", "move_assign"} /\ ~last'.threw /\ last'.dst # last'.src) =>
        /\ r'[last'.dst].has_value = r[last'.src].has_value
        /\ InSync(r'[last'.dst])
        /\ PayloadOf(r'[last'.dst]) = PayloadOf(r[last'.src])
        /\ Live(r'[last'.src]) = "none" ]_vars

\* operations that assign to, move from or destroy the Result x and do not
\* name the Result y
ActsOnOnly(l, x, y) ==
  /\ l.op \in {"copy_assign", "move_assign", "assign_ok", "assign_err", "move_ctor",
               "move_to_temporary", "dtor"}
  /\ (l.dst = x \/ l.src = x)
  /\ l.dst # y /\ l.src # y

\* C5 (a copy is independent): a step changes only the Result it is applied
\* to and the source of a move; in particular, right after c was copied from
\* o, assigning to, moving from or destroying one of them leaves the other
\* exactly as it was.
C5_CopyIndependent ==
  [][ /\ \A x \in Slots :
           r'[x] # r[x] =>
             \/ x = last'.dst
             \/ (x = last'.src /\ last'.op \in {"move_ctor", "move_assign", "move_to_temporary"})
      /\ LET c == last'.after[1]
             o == last'.after[2]
         IN c # 0 =>
              /\ ActsOnOnly(last', c, o) => r'[o] = r[o]
              /\ ActsOnOnly(last', o, c) => r'[c] = r[c] ]_vars

C5_Witness ==
  /\ last.after # <<0, 0>>
  /\ last.op = "assign_err" /\ last.dst = last.after[1] /\ ~last.threw
  /\ r[last.after[2]].alive /\ is_ok(r[last.after[2]]) /\ InSync(r[last.after[2]])
  /\ is_err(r[last.after[1]])

\* C6 (invariant I2): after a copy or move assignment whose operands were in
\* sync, the discriminant of the destination and its live payload are in sync,
\* also when the payload copy or move threw.
C6_AssignKeepsSync ==
  [][ (/\ last'.op \in {"copy_assign", "move_assign"}
       /\ status' = "running"
       /\ T # "void"
       /\ InSync(r[last'.dst]) /\ InSync(r[last'.src])) =>
        InSync(r'[last'.dst]) ]_vars

\* C7: a default-constructed Result is in the Ok state.
C7_DefaultIsOk ==
  last.op = "default_ctor" =>
    /\ r[last.dst].alive
    /\ is_ok(r[last.dst]) /\ ~is_err(r[last.dst])

C7_Witness == last.op = "default_ctor" /\ r[last.dst] = DefaultResult /\ T # "void"

\* C8: an extractor called in the wrong state writes one diagnostic line, ends
\* the process with EXIT_FAILURE and returns nothing; once the process has
\* ended no operation runs.
C8_MismatchIsFatal ==
  [][ /\ (last'.op \in Extractors /\ Tag(r[last'.dst].has_value) # Wanted(last'.op)) =>
           /\ Len(cerr') = Len(cerr) + 1
           /\ status' = "exit_failure"
           /\ ret' = NoRet
      /\ status = "running" ]_vars

C8_Witness ==
  /\ last.op = "unwrap" /\ is_err(r[last.dst]) /\ InSync(r[last.dst])
  /\ status = "exit_failure" /\ Len(cerr) = 1 /\ ret = NoRet

\* the text of a payload in a diagnostic: an enum as its underlying integer
TextOf(v) == IF v.k = "enum" THEN ToString(v.n) ELSE StreamOut(v)

\* C9: the diagnostic of a mismatched extraction is "<msg>: <payload held>",
\* or "<msg>" when the unit success is held; <msg> is the message of the caller
\* for expect/expect_err and the fixed text for unwrap/unwrap_err.
C9_DiagnosticShowsHeldPayload ==
  (status = "exit_failure" /\ last.op \in Extractors) =>
    LET res == r[last.dst]
        msg == last.arg.msg
    IN /\ last.op = "unwrap" => msg = "Attempting to unwrap an Err Result"
       /\ last.op = "unwrap_err" => msg = "Attempting to unwrap_err an Ok Result"
       /\ IF res.has_value /\ T = "void"
            THEN cerr = <<msg>>
            ELSE /\ InSync(res)
                 /\ cerr = <<msg \o ": " \o TextOf(res.storage.value)>>

ReadOnlyOps ==
  {"is_ok", "is_err", "ok", "err", "map", "map_err", "map_or", "map_or_else", "and",
   "and_then", "or", "or_else", "unwrap_or", "unwrap_or_default", "unwrap_or_else",
   "contains", "contains_err", "transpose", "eq", "ne", "eq_ok", "ne_ok", "eq_err",
   "ne_err", "map_map", "ok_eq", "err_eq"}

\* C10: the query, transformation and comparison operations leave the state
\* and the payload of every Result as they were, and is_ok / is_err called
\* again return what they returned before.
C10_ReadOnlyOpsChangeNothing ==
  [][ /\ last'.op \in ReadOnlyOps => r' = r
      /\ (last.op = "is_ok" /\ last'.op = "is_ok" /\ last'.dst = last.dst) => ret' = ret
      /\ (last.op = "is_err" /\ last'.op = "is_err" /\ last'.dst = last.dst) => ret' = ret
      /\ \A s \in Slots : r[s].alive =>
           /\ last'.op = "is_ok" /\ last'.dst = s => ret' = Bool(r[s].has_value)
           /\ last'.op = "is_err" /\ last'.dst = s => ret' = Bool(~r[s].has_value) ]_vars

C10_Witness ==
  /\ last.op = "map" /\ last.arg.f = "succ" /\ T = "int"
  /\ r[last.dst] = WrapperResult("ok", Val("int", 1))
  /\ ret = Res("ok", Val("int", 2))

\* the payload a Result in sync holds
Held(res) == IF Named(res) = "unit" THEN Unit ELSE res.storage.value

\* C11: and_then(op) on an Ok Result holding v invokes op exactly once, with
\* v, and returns op(v) as it is, also when op(v) is an Err; on an Err Result
\* holding e it invokes nothing and returns Err(e).
C11_AndThen ==
  (last.op = "and_then" /\ InSync(r[last.dst])) =>
     LET res == r[last.dst]
         f == last.arg.f
     IN IF is_ok(res)
          THEN /\ last.invoked = << <<f, Held(res)>> >>
               /\ ret = IF T = "void" THEN InvokeResThunk(f) ELSE InvokeRes(f, Held(res))
          ELSE /\ last.invoked = <<>>
               /\ ret = Res("err", Held(res))

C11_Witness ==
  /\ last.op = "and_then" /\ last.arg.f = "fail"
  /\ is_ok(r[last.dst]) /\ InSync(r[last.dst]) /\ T = "int"
  /\ Len(last.invoked) = 1 /\ ret.tag = "err"

\* C12: or_else(op) on an Err Result holding e invokes op exactly once, with
\* e, and returns op(e); on an Ok Result holding v it invokes nothing and
\* returns Ok(v).
C12_OrElse ==
  (last.op = "or_else" /\ InSync(r[last.dst])) =>
     LET res == r[last.dst]
         f == last.arg.f
     IN IF is_err(res)
          THEN /\ last.invoked = << <<f, Held(res)>> >>
               /\ ret = InvokeElse(f, Held(res))
          ELSE /\ last.invoked = <<>>
               /\ ret = Res("ok", Held(res))

C12_Witness ==
  /\ last.op = "or_else" /\ last.arg.f = "recover"
  /\ r[last.dst] = WrapperResult("err", Val(E, 1)) /\ T = "enum"
  /\ last.invoked = << <<"recover", Val(E, 1)>> >> /\ ret = Res("ok", Val(T, 1))

\* C13: map(op) on an Ok Result holding v returns Ok(op(v)), op being called
\* without argument for the unit success; on an Err Result holding e it
\* returns Err(e) and never invokes op.
C13_Map ==
  (last.op = "map" /\ InSync(r[last.dst])) =>
     LET res == r[last.dst]
         f == last.arg.f
     IN IF is_ok(res)
          THEN /\ last.invoked = << <<f, Held(res)>> >>
               /\ ret = Res("ok", IF T = "void" THEN InvokeThunk(f) ELSE Invoke(f, Held(res)))
          ELSE /\ last.invoked = <<>>
               /\ ret = Res("err", Held(res))

C13_Witness ==
  /\ last.op = "map" /\ last.arg.f = "one" /\ T = "void"
  /\ is_ok(r[last.dst]) /\ InSync(r[last.dst])
  /\ last.invoked = << <<"one", Unit>> >> /\ ret = Res("ok", Val("int", 1))

\* C14: map_err(op) on an Err Result holding e returns Err(op(e)); on an Ok
\* Result holding v it returns Ok(v) and never invokes op.
C14_MapErr ==
  (last.op = "map_err" /\ InSync(r[last.dst])) =>
     LET res == r[last.dst]
         f == last.arg.f
     IN IF is_err(res)
          THEN /\ last.invoked = << <<f, Held(res)>> >>
               /\ ret = Res("err", Invoke(f, Held(res)))
          ELSE /\ last.invoked = <<>>
               /\ ret = Res("ok", Held(res))

C14_Witness ==
  /\ last.op = "map_err" /\ last.arg.f = "succ"
  /\ r[last.dst] = WrapperResult("err", Val(E, 1)) /\ E = "class"
  /\ ret = Res("err", Val(E, 2))

\* C15 (functor laws): for a Result r in either state r.map(identity) equals
\* r, in state and payload and by operator==, and r.map(f).map(g) returns what
\* r.map(g after f) returns.
C15_FunctorLaws ==
  /\ (last.op = "map" /\ last.arg.f = "identity" /\ InSync(r[last.dst])) =>
       /\ ret = Res(Tag(r[last.dst].has_value), Held(r[last.dst]))
       /\ eq(Returned(ret), r[last.dst]) = {Bool(TRUE)}
  /\ (last.op = "map_map" /\ InSync(r[last.dst])) =>
       {ret} = { o.ret : o \in map(r[last.dst], Compose(last.arg.g, last.arg.f)) }

C15_Witness ==
  /\ last.op = "map_map" /\ last.arg.f = "succ" /\ last.arg.g = "twice"
  /\ r[last.dst] = WrapperResult("ok", Val(T, 1)) /\ T = "int"
  /\ ret = Res("ok", Val(T, 4))

\* C16: map_or_else(default_op, op) invokes exactly one of its callables per
\* call: op with the success payload when the Result is Ok, default_op with the
\* error payload when it is Err, and returns what that callable returned;
\* map_or(default, op) returns op(payload) when Ok and the default given,
\* without invoking op, when Err.
C16_MapOrElse ==
  /\ last.op = "map_or_else" =>
       /\ Len(last.invoked) = 1
       /\ last.invoked[1][1] = IF is_ok(r[last.dst]) THEN last.arg.f ELSE last.arg.g
  /\ (last.op = "map_or_else" /\ InSync(r[last.dst])) =>
       LET res == r[last.dst]
           U == IF T = "void" THEN "int" ELSE T
       IN /\ last.invoked[1][2] = Held(res)
          /\ ret = Payload(IF is_err(res) THEN Recast(U, Invoke(last.arg.g, Held(res)))
                           ELSE IF T = "void" THEN InvokeThunk(last.arg.f)
                           ELSE Invoke(last.arg.f, Held(res)))
  /\ (last.op = "map_or" /\ is_err(r[last.dst])) =>
       last.invoked = <<>> /\ ret = Payload(last.arg.v)
  /\ (last.op = "map_or" /\ is_ok(r[last.dst]) /\ InSync(r[last.dst])) =>
       /\ last.invoked = << <<last.arg.f, Held(r[last.dst])>> >>
       /\ ret = Payload(IF T = "void" THEN InvokeThunk(last.arg.f)
                        ELSE Invoke(last.arg.f, Held(r[last.dst])))

C16_Witness ==
  /\ last.op = "map_or_else" /\ last.arg.f = "identity" /\ last.arg.g = "succ"
  /\ r[last.dst] = WrapperResult("err", Val(E, 1)) /\ T = "class"
  /\ last.invoked = << <<"succ", Val(E, 1)>> >> /\ ret = Payload(Val(T, 2))

\* C17: x && y is y when x is Ok and Err(the error of x) when x is Err,
\* whatever y is; x || y is Ok(the value of x) when x is Ok, whatever y is, and
\* y when x is Err.
C17_AndOr ==
  /\ last.op = "and" =>
       LET x == r[last.dst]
           y == r[last.src]
       IN /\ (is_ok(x) /\ InSync(y)) => ret = Res(Tag(y.has_value), Held(y))
          /\ (is_err(x) /\ InSync(x)) => ret = Res("err", Held(x))
  /\ last.op = "or" =>
       LET x == r[last.dst]
           y == r[last.src]
       IN /\ (is_ok(x) /\ InSync(x)) => ret = Res("ok", Held(x))
          /\ (is_err(x) /\ InSync(y)) => ret = Res(Tag(y.has_value), Held(y))

C17_Witness ==
  /\ last.op = "and" /\ last.dst # last.src /\ T = "int"
  /\ r[last.dst] = WrapperResult("err", Val(E, 1))
  /\ r[last.src] = WrapperResult("err", Val(E, 0))
  /\ ret = Res("err", Val(E, 1))

\* C18: unwrap_or(default), unwrap_or_default() and unwrap_or_else(op) never
\* take the fatal path: on Ok they return the success payload, unwrap_or_else
\* without invoking op; on Err they return exactly the default given, the
\* default value of the success type, and op(error).
C18_UnwrapOr ==
  last.op \in {"unwrap_or", "unwrap_or_default", "unwrap_or_else"} =>
    LET res == r[last.dst] IN
    /\ status = "running" /\ cerr = <<>> /\ ret.kind = "payload" /\ ret.value.k = T
    /\ is_ok(res) => last.invoked = <<>>
    /\ (is_ok(res) /\ InSync(res)) => ret = Payload(Held(res))
    /\ (is_err(res) /\ last.op = "unwrap_or") => ret = Payload(last.arg.v)
    /\ (is_err(res) /\ last.op = "unwrap_or_default") => ret = Payload(DefaultValue(T))
    /\ (is_err(res) /\ last.op = "unwrap_or_else" /\ InSync(res)) =>
         /\ last.invoked = << <<last.arg.f, Held(res)>> >>
         /\ ret = Payload(Recast(T, Invoke(last.arg.f, Held(res))))

C18_Witness ==
  /\ last.op = "unwrap_or" /\ last.arg.v = Val(T, 1) /\ T = "enum"
  /\ is_err(r[last.dst]) /\ InSync(r[last.dst])
  /\ ret = Payload(Val(T, 1)) /\ status = "running"

\* C19: two Results compare equal iff they are in the same state and the
\* payloads they hold are equal, so Ok(p) == Err(p) is false; a Result equals
\* a bare Ok(v) iff it is Ok holding v and a bare Err(e) iff it is Err holding
\* e, with the wrapper on either side.
C19_Equality ==
  /\ last.op = "eq" =>
       LET x == r[last.dst]
           y == r[last.src]
       IN /\ is_ok(x) # is_ok(y) => ret = Bool(FALSE)
          /\ (is_ok(x) = is_ok(y) /\ InSync(x) /\ InSync(y)) => ret = Bool(Held(x) = Held(y))
  /\ last.op \in {"eq_ok", "ok_eq"} =>
       LET x == r[last.dst] IN
       /\ is_err(x) => ret = Bool(FALSE)
       /\ (is_ok(x) /\ InSync(x)) => ret = Bool(Held(x) = last.arg.v)
  /\ last.op \in {"eq_err", "err_eq"} =>
       LET x == r[last.dst] IN
       /\ is_ok(x) => ret = Bool(FALSE)
       /\ (is_err(x) /\ InSync(x)) => ret = Bool(Held(x) = last.arg.v)

C19_Witness ==
  /\ last.op = "eq" /\ T = "int" /\ E = "int"
  /\ r[last.dst] = WrapperResult("ok", Val("int", 1))
  /\ r[last.src] = WrapperResult("err", Val("int", 1))
  /\ ret = Bool(FALSE)

\* C20: contains(v) is true iff the Result is Ok and the success payload it
\* holds equals v, contains_err(e) is true iff it is Err and the error it holds
\* equals e; in the other state each returns false, whatever payload is held.
C20_Contains ==
  /\ last.op = "contains" =>
       LET x == r[last.dst] IN
       /\ is_err(x) => ret = Bool(FALSE)
       /\ (is_ok(x) /\ InSync(x)) => ret = Bool(Held(x) = last.arg.v)
  /\ last.op = "contains_err" =>
       LET x == r[last.dst] IN
       /\ is_ok(x) => ret = Bool(FALSE)
       /\ (is_err(x) /\ InSync(x)) => ret = Bool(Held(x) = last.arg.v)

C20_Witness ==
  /\ last.op = "contains" /\ T = "int" /\ E = "int"
  /\ r[last.dst] = WrapperResult("err", Val("int", 1))
  /\ last.arg.v = Val("int", 1) /\ ret = Bool(FALSE)

\* C21: transpose() on a Result whose success type is an optional returns an
\* empty optional for Ok(empty optional), an optional holding Ok(v) for
\* Ok(optional holding v) and an optional holding Err(e) for Err(e).
C21_Transpose ==
  (last.op = "transpose" /\ InSync(r[last.dst])) =>
     LET res == r[last.dst] IN
     /\ T = "optional"
     /\ (is_ok(res) /\ ~Held(res).has) => ret = NoneRes
     /\ (is_ok(res) /\ Held(res).has) => ret = SomeRes("ok", Val("int", Held(res).n))
     /\ is_err(res) => ret = SomeRes("err", Held(res))

C21_Witness ==
  /\ last.op = "transpose"
  /\ r[last.dst] = WrapperResult("err", Val(E, 1))
  /\ ret = SomeRes("err", Val(E, 1))

\* C22: ok() returns an optional holding the success payload when the Result
\* is Ok and an empty optional when it is Err; err() returns an optional
\* holding the error payload when the Result is Err and an empty optional when
\* it is Ok.
C22_OkErr ==
  /\ last.op = "ok" =>
       LET res == r[last.dst] IN
       /\ is_err(res) => ret = None
       /\ (is_ok(res) /\ InSync(res)) => ret = Some(Held(res))
  /\ last.op = "err" =>
       LET res == r[last.dst] IN
       /\ is_ok(res) => ret = None
       /\ (is_err(res) /\ InSync(res)) => ret = Some(Held(res))

C22_Witness ==
  /\ last.op = "ok" /\ T = "optional"
  /\ r[last.dst] = WrapperResult("err", Val(E, 1))
  /\ ret = None

\* C29: operator!= is the exact negation of operator==: for two Results, of a
\* unit success type included, and for a Result and a bare Ok or Err wrapper,
\* a != b returns true exactly when a == b returns false.
C29_NeNegatesEq ==
  /\ (last.op = "ne" /\ InSync(r[last.dst]) /\ InSync(r[last.src])) =>
       ret = Bool(eq(r[last.dst], r[last.src]) = {Bool(FALSE)})
  /\ (last.op = "ne_ok" /\ InSync(r[last.dst])) =>
       ret = Bool(eq_ok(r[last.dst], last.arg.v) = {Bool(FALSE)})
  /\ (last.op = "ne_err" /\ InSync(r[last.dst])) =>
       ret = Bool(eq_err(r[last.dst], last.arg.v) = {Bool(FALSE)})

\* the assignment builds the new payload in the staging storage, and destroys
\* nothing of the destination before that
StagedFirst(c) ==
  /\ \E i \in DOMAIN c : c[i].fn = "construct" /\ c[i].obj = "tmp"
  /\ \A j \in DOMAIN c :
       (c[j].fn = "destroy" /\ c[j].obj = "dst") =>
          \E i \in 1..(j - 1) : c[i].fn = "construct" /\ c[i].obj = "tmp"

\* C23: a copy or move assignment of a payload whose construction can throw
\* builds the new payload in a staging storage before it destroys the old
\* payload of the destination, and when it throws the destination is in the
\* state and holds the payload it had before.
C23_StagedAssignment ==
  [][ (/\ last'.op \in {"copy_assign", "move_assign"}
       /\ last'.dst # last'.src
       /\ InSync(r[last'.dst]) /\ InSync(r[last'.src])
       /\ MayThrow(KindOf(Tag(r[last'.src].has_value)))) =>
        /\ StagedFirst(last'.calls)
        /\ (last'.threw /\ status' = "running") => r'[last'.dst] = r[last'.dst] ]_vars

AssignOps == {"copy_assign", "move_assign", "assign_ok", "assign_err"}

\* C24 (no double construct): every construct / raw_construct is made on a
\* storage that holds no live payload and whose flag initialized is false; in
\* an assignment the storage of the destination is destroyed before the new
\* payload is constructed in it.
C24_NoDoubleConstruct ==
  \A i \in DOMAIN last.calls :
    LET c == last.calls[i] IN
    c.fn = "construct" =>
      /\ ~c.initialized /\ c.live = "none"
      /\ (last.op \in AssignOps /\ c.obj = "dst") =>
           \E j \in 1..(i - 1) : last.calls[j].fn = "destroy" /\ last.calls[j].obj = "dst"

C24_Witness ==
  /\ last.op = "copy_assign" /\ ~last.threw /\ Len(last.calls) = 5
  /\ last.calls[3].fn = "destroy" /\ last.calls[3].obj = "dst" /\ last.calls[3].ran
  /\ last.calls[3].tag = "err"
  /\ last.calls[5].fn = "construct" /\ last.calls[5].obj = "dst" /\ last.calls[5].ran
  /\ last.calls[5].tag = "ok"

\* C25 (no use after destroy): every payload read through Storage::get reads a
\* payload that is live at that moment and of the type asked for, also when
\* the Result read is default-constructed or moved-from.
C25_ReadsLivePayload ==
  \A i \in DOMAIN last.calls :
    last.calls[i].fn = "get" => last.calls[i].live = last.calls[i].tag

\* C26 (no leak): every payload constructed is destroyed: the payload built in
\* the staging storage of a copy assignment and the temporary Result of an
\* assignment from Ok(v) / Err(e) are destroyed before the assignment returns,
\* and a Result that was destroyed holds no live payload.
C26_NoLeak ==
  /\ \A s \in Slots : ~r[s].alive => r[s].storage.live = "none"
  /\ status = "running" =>
       \A i \in DOMAIN last.calls :
         LET c == last.calls[i] IN
         (/\ c.fn = "construct" /\ c.ran
          /\ c.obj = "tmp" \/ (c.obj = "src" /\ last.op \in {"assign_ok", "assign_err"})) =>
            \E j \in (i + 1)..Len(last.calls) :
              /\ last.calls[j].fn = "destroy" /\ last.calls[j].ran
              /\ last.calls[j].obj = c.obj /\ last.calls[j].tag = c.tag

\* C27 (no double destroy): Storage::destroy runs a payload destructor only on
\* a payload that is live and of the type of the tag, and is a no-op on a
\* storage without live payload (destroyed, moved-from, never constructed);
\* the destructor of Result makes one destroy call, for the payload the
\* discriminant names, and leaves no live payload.
C27_NoDoubleDestroy ==
  /\ \A i \in DOMAIN last.calls :
       LET c == last.calls[i] IN
       c.fn = "destroy" =>
         /\ c.ran => c.live = c.tag
         /\ c.live = "none" => ~c.ran
  /\ last.op = "dtor" =>
       LET c == last.calls[1]
           res == r[last.dst]
       IN /\ Len(last.calls) = 1 /\ c.fn = "destroy"
          /\ c.tag = Tag(res.has_value)
          /\ res.storage.live = "none" /\ ~res.storage.initialized
          /\ ~c.ran => res.storage.live = c.live

C27_Witness ==
  /\ last.op = "dtor" /\ Len(last.calls) = 1
  /\ last.calls[1].tag = "err" /\ last.calls[1].live = "none" /\ ~last.calls[1].ran
  /\ KindOf("err") = "class"

\* C28: self-assignment, r = r or r = std::move(r), leaves the state and the
\* payload of r (and every other Result) as they were, the payload of a Result
\* that held one still live: no Storage member is called, nothing is
\* destroyed, constructed or moved, nothing is thrown.
C28_SelfAssignment ==
  [][ (last'.op \in {"copy_assign", "move_assign"} /\ last'.dst = last'.src) =>
        /\ r' = r
        /\ InSync(r[last'.dst]) => InSync(r'[last'.dst])
        /\ last'.calls = <<>>
        /\ ~last'.threw /\ status' = status ]_vars

C28_Witness ==
  /\ last.op = "move_assign" /\ last.dst = last.src
  /\ is_err(r[last.dst]) /\ InSync(r[last.dst]) /\ KindOf("err") = "class"
  /\ last.calls = <<>> /\ status = "running"

\* C30: for the unit success type a construction or assignment that leaves a
\* Result<void, E> in the Ok state leaves the flag initialized of its storage
\* true, as the construction from Ok() does, and the flag of an Ok Result is
\* cleared only by a move from it or by its destruction.
C30_VoidBookkeeping ==
  [][ T = "void" =>
        /\ (/\ last'.op \in {"ctor_ok", "copy_assign", "move_assign", "assign_ok"}
            /\ ~last'.threw /\ last'.dst # last'.src
            /\ last'.src # 0 => InSync(r[last'.src])
            /\ is_ok(r'[last'.dst])) =>
              r'[last'.dst].storage.initialized
        /\ \A s \in Slots :
             (/\ r[s].alive /\ is_ok(r[s]) /\ r[s].storage.initialized
              /\ r'[s].alive /\ is_ok(r'[s]) /\ ~r'[s].storage.initialized) =>
                last'.op \in {"move_ctor", "move_assign", "move_to_temporary"} /\ last'.src = s
    ]_vars
====
